---- MODULE Spec2Model ----
(***************************************************************************)
(* Tenant lifecycle of the organization service: the master database       *)
(* (collections organizations and admins), the per-tenant databases        *)
(* org_<canonical name>, and the request handlers create / get / delete /  *)
(* update of app/routers/orgs.py and the login handler of                  *)
(* app/routers/admin.py.                                                   *)
(*                                                                         *)
(* Strings that the code inspects character by character (organization     *)
(* names, database names) are sequences of one-character strings.          *)
(* Identifier values are pairs <<kind, n>> so that a BSON null and the     *)
(* Python str() of it stay distinct values.                                *)
(***************************************************************************)
EXTENDS Integers, Sequences, FiniteSets, TLC

VARIABLES organizations, admins, tenants, tokens, calls,
          text, sanitized, migration

vars == <<organizations, admins, tenants, tokens, calls, text, sanitized, migration>>
\* the state of the sanitizers under test and of the offline migration script
toolvars == <<text, sanitized, migration>>

(***************************************************************************)
(* Bounds of the model.                                                    *)
(***************************************************************************)
\* number of distinct clock readings of datetime.utcnow()
MaxTime == 1

(***************************************************************************)
(* Inputs.                                                                 *)
(***************************************************************************)
Ace == <<"A", "c", "e">>
ace == <<"a", "c", "e">>
Bee == <<"B", "e", "e">>
\* a name of valid length that has no character of a canonical name
Bang == <<"!", "!", "!">>

DisplayNames == {Ace, ace, Bee}
\* the names of the requests served by a store that always answers
ReliableNames == {Ace, ace, Bee, Bang}
Emails == {"e1@x.io", "e2@x.io"}
Passwords == {"password1"}
Times == 1..MaxTime
\* requests served at the same time in the interleaved model
Procs == {1, 2}

(***************************************************************************)
(* schemas.py: OrganizationCreate.organization_name                        *)
(***************************************************************************)
MinNameLen == 3
MaxNameLen == 50

(***************************************************************************)
(* Characters.                                                             *)
(***************************************************************************)
UpperChars == {"A", "B", "C", "E"}
LowerChars == {"a", "b", "c", "e"}
DigitChars == {"1"}
WhiteChars == {" ", "\t"}

ToLower(ch) ==
    CASE ch = "A" -> "a"
      [] ch = "B" -> "b"
      [] ch = "C" -> "c"
      [] ch = "E" -> "e"
      [] OTHER -> ch

\* name.lower()
lower(s) == [i \in 1..Len(s) |-> ToLower(s[i])]

RECURSIVE SkipWhite(_)
SkipWhite(s) ==
    IF s # <<>> /\ Head(s) \in WhiteChars THEN SkipWhite(Tail(s)) ELSE s

\* re.sub(r'\s+', '_', name): every maximal run of whitespace becomes one "_"
RECURSIVE sub_whitespace(_)
sub_whitespace(s) ==
    IF s = <<>> THEN <<>>
    ELSE IF Head(s) \in WhiteChars
         THEN <<"_">> \o sub_whitespace(SkipWhite(s))
         ELSE <<Head(s)>> \o sub_whitespace(Tail(s))

\* the character class [a-z0-9_]
IsCanonicalChar(ch) == ch \in LowerChars \cup DigitChars \cup {"_"}

\* re.sub(r'[^a-z0-9_]+', '', name)
sub_nothing(s) == s
sub_special(s) == SelectSeq(s, IsCanonicalChar)

\* routers/orgs.py
sanitize_org_name(name) == sub_special(sub_whitespace(lower(name)))

\* a string without its leading and trailing whitespace, as the expected
\* values of tests/test_sanitization.py have it
strip(s) ==
    LET t == SkipWhite(s)
        last == {k \in DOMAIN t : t[k] \notin WhiteChars}
    IN  IF last = {} THEN <<>> ELSE SubSeq(t, 1, CHOOSE k \in last : \A j \in last : j <= k)

\* scripts/migrate_org_name.py
sanitize_name_stripped(name) == sub_special(sub_whitespace(lower(strip(name))))
sanitize_name(name) == sub_special(sub_whitespace(lower(name)))

\* db.py, get_tenant_db: f"org_{org_name_lower}"
tenant_db_name(org_name_lower) == <<"o", "r", "g", "_">> \o org_name_lower

\* delete_organization: drop_database(f"org_{org_name_lower}")
dropped_db_name_tenant(org_name_lower) == <<"t", "e", "n", "a", "n", "t", "_">> \o org_name_lower
dropped_db_name(org_name_lower) == <<"o", "r", "g", "_">> \o org_name_lower

(***************************************************************************)
(* Identifier values.                                                      *)
(***************************************************************************)
\* Python None, stored by the driver as BSON null
None == <<"None", 0>>
\* str(None): the string "None", not None
str(v) == IF v = None THEN <<"str:None", 0>> ELSE v

(***************************************************************************)
(* The document store: a collection is the sequence of its documents in    *)
(* insertion order; every collection has a unique index on _id.            *)
(***************************************************************************)
SetMin(S) == CHOOSE m \in S : \A k \in S : m <= k

\* positions of the documents a filter {field: value} matches
MatchingNone(coll, field, value) == {}
Matching(coll, field, value) == {i \in DOMAIN coll : coll[i][field] = value}

\* find_one: the first matching document, as <<doc>>, or <<>> for None
find_one(coll, field, value) ==
    LET m == Matching(coll, field, value)
    IN  IF m = {} THEN <<>> ELSE <<coll[SetMin(m)]>>

\* insert_one raises DuplicateKeyError when the _id is already present
NoDuplicateKey(coll, doc) == FALSE
DuplicateKey(coll, doc) == Matching(coll, "_id", doc._id) # {}
insert_one(coll, doc) == Append(coll, doc)

RemoveAt(coll, k) == [i \in 1..(Len(coll) - 1) |-> IF i < k THEN coll[i] ELSE coll[i + 1]]

\* delete_one: removes the first matching document, if any
delete_one(coll, field, value) ==
    LET m == Matching(coll, field, value)
    IN  IF m = {} THEN coll ELSE RemoveAt(coll, SetMin(m))

\* update_one with {"$set": fields}: rewrites the first matching document
update_one(coll, field, value, fields) ==
    LET m == Matching(coll, field, value)
    IN  IF m = {} THEN coll
        ELSE [coll EXCEPT ![SetMin(m)] =
                 [k \in DOMAIN @ |-> IF k \in DOMAIN fields THEN fields[k] ELSE @[k]]]

\* The tenant databases are the set of their collections, each a record
\* [db, coll, docs]; a database exists exactly when it has a collection.
list_database_names(tdbs) == {r.db : r \in tdbs}

\* client[db][coll]: a collection that does not exist reads as empty
tenant_collection(tdbs, dbname, cname) ==
    LET hit == {r \in tdbs : r.db = dbname /\ r.coll = cname}
    IN  IF hit = {} THEN <<>> ELSE (CHOOSE r \in hit : TRUE).docs

\* writing a collection creates the database and the collection on first use
tenant_put(tdbs, dbname, cname, docs) ==
    {r \in tdbs : ~(r.db = dbname /\ r.coll = cname)}
        \cup {[db |-> dbname, coll |-> cname, docs |-> docs]}

\* client.drop_database(name): no effect when the database does not exist
drop_database(tdbs, dbname) == {r \in tdbs : r.db # dbname}

(***************************************************************************)
(* models.py, auth.py: the documents the handlers build.  Every model has  *)
(* id = None under the alias _id, and model_dump(by_alias=True) keeps that *)
(* key, so the driver does not generate an _id for these documents.        *)
(***************************************************************************)
\* OrganizationInDB(...).model_dump(by_alias=True)
OrganizationInDB(organization_name, organization_name_lower, admin_email, created_at) ==
    [_id |-> None,
     organization_name |-> organization_name,
     organization_name_lower |-> organization_name_lower,
     admin_email |-> admin_email,
     created_at |-> created_at]

\* AdminInDB(...).model_dump(by_alias=True)
AdminInDBUnlinked(email, hashed_password, organization_id, created_at) ==
    [_id |-> None,
     email |-> email,
     hashed_password |-> hashed_password,
     organization_id |-> None,
     created_at |-> created_at]
AdminInDB(email, hashed_password, organization_id, created_at) ==
    [_id |-> None,
     email |-> email,
     hashed_password |-> hashed_password,
     organization_id |-> organization_id,
     created_at |-> created_at]

\* TenantMetadataInDB(...).model_dump(by_alias=True)
TenantMetadataInDB(organization_id, organization_name, created_at) ==
    [_id |-> None,
     organization_id |-> organization_id,
     organization_name |-> organization_name,
     created_at |-> created_at]

\* pwd_context.hash / pwd_context.verify
hash_password(password) == <<"bcrypt", password>>
verify_password(plain_password, hashed_password) == hashed_password = <<"bcrypt", plain_password>>

\* datetime.isoformat()
isoformat(created_at) == <<"iso", created_at>>

\* OrganizationResponse
OrganizationResponse(organization_name, admin_email, created_at) ==
    [organization_name |-> organization_name,
     admin_email |-> admin_email,
     created_at |-> isoformat(created_at)]

\* orgs_collection.find_one({"organization_name_lower": ...})
OrgByDisplayName(orgs, name_lower) == find_one(orgs, "organization_name", name_lower)
OrgByCanonicalName(orgs, name_lower) == find_one(orgs, "organization_name_lower", name_lower)

\* org_in_db.admin_email != admin_email
NeverForbidden(org_in_db, admin_email) == FALSE
NotOwner(org_in_db, admin_email) == org_in_db.admin_email # admin_email

\* Field(..., min_length=3, max_length=50)
ValidOrganizationName(name) == Len(name) >= MinNameLen /\ Len(name) <= MaxNameLen

(***************************************************************************)
(* A call is one execution of a request handler: its arguments, its        *)
(* position pc (the store operation it performs next), its local           *)
(* variables org (org_in_db), org_id and e (the exception caught), and,    *)
(* once pc = "done", the HTTP status, detail and body it returned.  overlap is the set of processes whose     *)
(* calls were in flight at some moment of this call.                       *)
(***************************************************************************)
Unbound == <<"unbound", 0>>

NoCall ==
    [op |-> "none", pc |-> "done", name |-> <<>>, new_name |-> <<>>,
     email |-> "", password |-> "", admin |-> "", t |-> 0,
     org |-> <<>>, org_id |-> Unbound, e |-> <<"", "">>,
     status |-> 0, detail |-> "", body |-> <<>>, overlap |-> {}]

\* the master and tenant databases as one value
Store(orgs, adms, tdbs) == [organizations |-> orgs, admins |-> adms, tenants |-> tdbs]
DB == Store(organizations, admins, tenants)

\* the handler returns or raises; org and org_id keep what the handler last held
Respond(c, status, detail, body) ==
    [c EXCEPT !.pc = "done", !.status = status, !.detail = detail, !.body = body]
\* raise HTTPException(status_code, detail)
HTTPException(c, status, detail) == Respond(c, status, detail, <<>>)
\* an exception no handler catches: the framework answers 500
Unhandled(c) == Respond(c, 500, "Internal Server Error", <<>>)
Goto(c, pc) == [c EXCEPT !.pc = pc]
Outcome(D, c) == [db |-> D, c |-> c]

(***************************************************************************)
(* create_organization.  fault says that the write of this step raises    *)
(* (the store is unreachable) and is not applied.                          *)
(***************************************************************************)
\* the exception an insert into a collection raises
Raised(fault, collection) ==
    IF fault THEN <<"ConnectionFailure", collection>> ELSE <<"DuplicateKeyError", collection>>

StartCreate(organization_name, email, password, t) ==
    LET c == [NoCall EXCEPT !.op = "create", !.name = organization_name,
                            !.email = email, !.password = password, !.t = t]
    IN  IF ValidOrganizationName(organization_name)
        THEN Goto(c, "find") ELSE HTTPException(c, 422, "validation error")

create_organization(D, c, fault) ==
    LET org_name_lower == sanitize_org_name(c.name)
        org_in_db == OrganizationInDB(c.name, org_name_lower, c.email, c.t)
        admin_in_db == AdminInDB(c.email, hash_password(c.password), c.org_id, c.t)
        tenant_metadata == TenantMetadataInDB(c.org_id, c.name, c.t)
        tenant_db == tenant_db_name(org_name_lower)
        metadata_collection == tenant_collection(D.tenants, tenant_db, "tenant_metadata")
    IN  CASE c.pc = "find" ->
               IF OrgByCanonicalName(D.organizations, org_name_lower) # <<>>
               THEN Outcome(D, HTTPException(c, 409, "Organization name already exists."))
               ELSE Outcome(D, Goto(c, "insert_org"))
          [] c.pc = "insert_org" ->
               \* a failure here reaches the except block with org_id unbound:
               \* the block raises before either compensating delete
               IF fault \/ DuplicateKey(D.organizations, org_in_db)
               THEN Outcome(D, Unhandled(c))
               ELSE Outcome([D EXCEPT !.organizations = insert_one(@, org_in_db)],
                            [c EXCEPT !.pc = "insert_admin", !.org_id = str(org_in_db._id)])
          [] c.pc = "insert_admin" ->
               IF fault \/ DuplicateKey(D.admins, admin_in_db)
               THEN Outcome(D, [c EXCEPT !.pc = "rollback_org",
                                         !.e = Raised(fault, "admins")])
               ELSE Outcome([D EXCEPT !.admins = insert_one(@, admin_in_db)],
                            Goto(c, "insert_metadata"))
          [] c.pc = "insert_metadata" ->
               IF fault \/ DuplicateKey(metadata_collection, tenant_metadata)
               THEN Outcome(D, [c EXCEPT !.pc = "rollback_org",
                                         !.e = Raised(fault, "tenant_metadata")])
               ELSE Outcome([D EXCEPT !.tenants =
                                 tenant_put(@, tenant_db, "tenant_metadata",
                                            insert_one(metadata_collection, tenant_metadata))],
                            Respond(c, 201, "", <<OrganizationResponse(c.name, c.email, c.t)>>))
          [] c.pc = "rollback_org" ->
               IF fault THEN Outcome(D, Unhandled(c))
               ELSE Outcome([D EXCEPT !.organizations = delete_one(@, "_id", c.org_id)],
                            Goto(c, "rollback_admin"))
          [] c.pc = "rollback_admin" ->
               IF fault THEN Outcome(D, Unhandled(c))
               ELSE Outcome([D EXCEPT !.admins = delete_one(@, "email", c.email)],
                            HTTPException(c, 500, "Failed to create organization"))

(***************************************************************************)
(* get_organization                                                        *)
(***************************************************************************)
StartGet(organization_name) ==
    [NoCall EXCEPT !.op = "get", !.name = organization_name, !.pc = "find"]

get_organization(D, c, fault) ==
    LET org_name_lower == sanitize_org_name(c.name)
        org_data == OrgByCanonicalName(D.organizations, org_name_lower)
    IN  IF org_data = <<>>
        THEN Outcome(D, HTTPException(c, 404, "Organization not found."))
        ELSE Outcome(D, Respond(c, 200, "",
                 <<OrganizationResponse(org_data[1].organization_name,
                                        org_data[1].admin_email,
                                        org_data[1].created_at)>>))

(***************************************************************************)
(* delete_organization                                                     *)
(***************************************************************************)
StartDelete(organization_name, admin_email) ==
    [NoCall EXCEPT !.op = "delete", !.name = organization_name,
                   !.admin = admin_email, !.pc = "find"]

delete_organization(D, c, fault) ==
    LET org_name_lower == sanitize_org_name(c.name)
        org_data == OrgByCanonicalName(D.organizations, org_name_lower)
    IN  IF fault THEN Outcome(D, Unhandled(c))
        ELSE
        CASE c.pc = "find" ->
               IF org_data = <<>>
               THEN Outcome(D, HTTPException(c, 404, "Organization not found."))
               ELSE IF NotOwner(org_data[1], c.admin)
               THEN Outcome(D, HTTPException(c, 403, "Not authorized to delete this organization."))
               ELSE Outcome(D, [c EXCEPT !.pc = "delete_org", !.org = org_data])
          [] c.pc = "delete_org" ->
               Outcome([D EXCEPT !.organizations = delete_one(@, "_id", c.org[1]._id)],
                       Goto(c, "delete_admin"))
          [] c.pc = "delete_admin" ->
               Outcome([D EXCEPT !.admins = delete_one(@, "organization_id", c.org[1]._id)],
                       Goto(c, "drop_database"))
          [] c.pc = "drop_database" ->
               Outcome([D EXCEPT !.tenants = drop_database(@, dropped_db_name(org_name_lower))],
                       Respond(c, 204, "", <<>>))

(***************************************************************************)
(* update_organization.  The payload's email and password fields are       *)
(* validated by the routing layer and not read by the handler.             *)
(***************************************************************************)
StartUpdate(organization_name, new_name, admin_email) ==
    LET c == [NoCall EXCEPT !.op = "update", !.name = organization_name,
                            !.new_name = new_name, !.admin = admin_email]
    IN  IF ValidOrganizationName(organization_name)
        THEN Goto(c, "find_new") ELSE HTTPException(c, 422, "validation error")

\* the "$set" document of the rename
UpdateFieldsAndTime(new_name, new_lower) ==
    [organization_name |-> new_name, organization_name_lower |-> new_lower, created_at |-> 0]
UpdateDisplayNameOnly(new_name, new_lower) ==
    [organization_name |-> new_name]
UpdateFields(new_name, new_lower) ==
    [organization_name |-> new_name, organization_name_lower |-> new_lower]

update_organization(D, c, fault) ==
    LET old_lower == sanitize_org_name(c.name)
        new_lower == sanitize_org_name(c.new_name)
        existing == OrgByCanonicalName(D.organizations, old_lower)
    IN  IF fault THEN Outcome(D, Unhandled(c))
        ELSE
        CASE c.pc = "find_new" ->
               IF OrgByCanonicalName(D.organizations, new_lower) # <<>>
               THEN Outcome(D, HTTPException(c, 409, "New organization name already exists."))
               ELSE Outcome(D, Goto(c, "find_old"))
          [] c.pc = "find_old" ->
               IF existing = <<>>
               THEN Outcome(D, HTTPException(c, 404, "Organization not found."))
               ELSE IF NotOwner(existing[1], c.admin)
               THEN Outcome(D, HTTPException(c, 403, "Not authorized to update this organization."))
               ELSE Outcome(D, [c EXCEPT !.pc = "update", !.org = existing])
          [] c.pc = "update" ->
               Outcome([D EXCEPT !.organizations =
                            update_one(@, "_id", c.org[1]._id, UpdateFields(c.new_name, new_lower))],
                       Respond(c, 200, "", <<OrganizationResponse(c.new_name,
                                                             c.org[1].admin_email,
                                                             c.org[1].created_at)>>))

\* the positions at which a handler writes to the store
WritePositions ==
    {"insert_org", "insert_admin", "insert_metadata", "rollback_org", "rollback_admin",
     "delete_org", "delete_admin", "drop_database", "update"}

\* one store operation of the handler a call is in
Step(D, c, fault) ==
    CASE c.op = "create" -> create_organization(D, c, fault)
      [] c.op = "get" -> get_organization(D, c, fault)
      [] c.op = "delete" -> delete_organization(D, c, fault)
      [] c.op = "update" -> update_organization(D, c, fault)

\* A handler run from its current position to its return, with no other
\* handler in between: the set of its possible results, one for every choice
\* of which of its writes raise.
RECURSIVE Run(_, _)
Run(D, c) ==
    IF c.pc = "done" THEN {Outcome(D, c)}
    ELSE UNION {LET s == Step(D, c, fault) IN Run(s.db, s.c) :
                    fault \in IF c.pc \in WritePositions THEN BOOLEAN ELSE {FALSE}}

\* the same with a store in which no operation raises
RECURSIVE RunNoFault(_, _)
RunNoFault(D, c) ==
    IF c.pc = "done" THEN Outcome(D, c)
    ELSE LET s == Step(D, c, FALSE) IN RunNoFault(s.db, s.c)

(***************************************************************************)
(* admin_login: one find_one on admins; a token is a JWT whose subject is  *)
(* the administrator's email, so tokens is the set of emails with a token. *)
(***************************************************************************)
admin_login(adms, username, password) ==
    LET admin_data == find_one(adms, "email", username)
    IN  IF admin_data = <<>> THEN 401
        ELSE IF ~verify_password(password, admin_data[1].hashed_password) THEN 401
        ELSE 200

(***************************************************************************)
(* State machine.                                                          *)
(***************************************************************************)
\* no sanitizer has been applied to text
NotSanitized == [router |-> <<>>, script |-> <<>>, twice |-> <<>>]
\* the migration script has not been started: its arguments, its position pc,
\* its local variables, what it printed (log, warnings), and the record of
\* the runs so far (run, before, inserted, history)
NoMigration ==
    [pc |-> "idle", old_org_name |-> <<>>, new_org_name |-> <<>>, batch_size |-> 0,
     old_collections |-> <<>>, k |-> 0,
     total_documents_old |-> 0, copied_count |-> 0, skipped_count |-> 0,
     cursor |-> 0, batch |-> <<>>, flushed |-> 0, return_to |-> "",
     log |-> {}, warnings |-> {},
     run |-> 0, before |-> {}, inserted |-> 0, history |-> <<>>,
     close_is_coroutine |-> TRUE]

Init ==
    /\ organizations = <<>>
    /\ admins = <<>>
    /\ tenants = {}
    /\ tokens = {}
    /\ calls = [p \in Procs |-> NoCall]
    /\ text = <<>>
    /\ sanitized = NotSanitized
    /\ migration = NoMigration

Idle(p) == calls[p].pc = "done"
InFlight == {p \in Procs : ~Idle(p)}

\* the store and the call of process p after a step or a run
Commit(p, r) ==
    /\ organizations' = r.db.organizations
    /\ admins' = r.db.admins
    /\ tenants' = r.db.tenants
    /\ calls' = [calls EXCEPT ![p] = r.c]
    /\ UNCHANGED toolvars

\* the results a call can have, with a store whose writes may raise (faulty)
\* or with a store that always answers
Results(D, c, faulty) == IF faulty THEN Run(D, c) ELSE {RunNoFault(D, c)}

\* One call at a time: each handler runs from request to response.
Create(p, names, faulty) ==
    \E n \in names, e \in Emails, pw \in Passwords, t \in Times :
        /\ Idle(p)
        /\ \E r \in Results(DB, StartCreate(n, e, pw, t), faulty) : Commit(p, r)
        /\ UNCHANGED tokens

Get(p, names, faulty) ==
    \E n \in names :
        /\ Idle(p)
        /\ \E r \in Results(DB, StartGet(n), faulty) : Commit(p, r)
        /\ UNCHANGED tokens

Delete(p, names, faulty) ==
    \E n \in names, a \in tokens :
        /\ Idle(p)
        /\ \E r \in Results(DB, StartDelete(n, a), faulty) : Commit(p, r)
        /\ UNCHANGED tokens

Rename(p, names, faulty) ==
    \E n \in names, nn \in names, a \in tokens :
        /\ Idle(p)
        /\ \E r \in Results(DB, StartUpdate(n, nn, a), faulty) : Commit(p, r)
        /\ UNCHANGED tokens

\* a successful login hands the caller a token for the administrator's email
Login ==
    \E e \in Emails, pw \in Passwords \cup {"wrong-password"} :
        /\ admin_login(admins, e, pw) = 200
        /\ tokens' = tokens \cup {e}
        /\ UNCHANGED <<organizations, admins, tenants, calls>>
        /\ UNCHANGED toolvars

Next ==
    \/ Create(1, DisplayNames, TRUE)
    \/ Get(1, DisplayNames, TRUE)
    \/ Delete(1, DisplayNames, TRUE)
    \/ Rename(1, DisplayNames, TRUE)
    \/ Login

Spec == Init /\ [][Next]_vars

\* the same with a store that never fails, and one more name
NextReliable ==
    \/ Create(1, ReliableNames, FALSE)
    \/ Get(1, ReliableNames, FALSE)
    \/ Delete(1, ReliableNames, FALSE)
    \/ Rename(1, ReliableNames, FALSE)
    \/ Login

SpecReliable == Init /\ [][NextReliable]_vars

(***************************************************************************)
(* Interleaved handlers: the event loop switches between requests at every *)
(* await, that is at every store operation.  A process is one request      *)
(* being served; when its handler has returned it serves the next one.     *)
(* The store answers every operation.                                      *)
(***************************************************************************)
ConcNames == {Ace, Bee}
ConcEmails == {"e1@x.io"}

\* process p starts serving call c, while the calls of InFlight are being served
Begin(p, c) ==
    /\ Idle(p)
    /\ calls' = [q \in Procs |->
                   IF q = p THEN [c EXCEPT !.overlap = InFlight]
                   ELSE IF q \in InFlight THEN [calls[q] EXCEPT !.overlap = @ \cup {p}]
                   ELSE calls[q]]
    /\ UNCHANGED <<organizations, admins, tenants, tokens>>
    /\ UNCHANGED toolvars

BeginCreate(p) ==
    \E n \in ConcNames, e \in ConcEmails, pw \in Passwords, t \in Times :
        Begin(p, StartCreate(n, e, pw, t))

BeginDelete(p) ==
    \E n \in ConcNames, a \in tokens : Begin(p, StartDelete(n, a))

BeginRename(p) ==
    \E n \in ConcNames, nn \in ConcNames, a \in tokens : Begin(p, StartUpdate(n, nn, a))

\* the next store operation of the call process p is serving
Advance(p, op) ==
    /\ ~Idle(p)
    /\ calls[p].op = op
    /\ Commit(p, Step(DB, calls[p], FALSE))
    /\ UNCHANGED tokens

StepCreate(p) == Advance(p, "create")
StepDelete(p) == Advance(p, "delete")
StepRename(p) == Advance(p, "update")

NextConc ==
    \/ \E p \in Procs : BeginCreate(p)
    \/ \E p \in Procs : BeginDelete(p)
    \/ \E p \in Procs : BeginRename(p)
    \/ \E p \in Procs : StepCreate(p)
    \/ \E p \in Procs : StepDelete(p)
    \/ \E p \in Procs : StepRename(p)
    \/ Login

SpecConc == Init /\ [][NextConc]_vars

(***************************************************************************)
(* The two sanitizers as functions of one input: text is a string of at    *)
(* most MaxLen characters, sanitized holds what the router's sanitizer     *)
(* returned for it, what the script's sanitizer returned for it, and what  *)
(* the router's sanitizer returned for its own output.  A result is <<r>>, *)
(* <<>> while it has not been computed.                                    *)
(***************************************************************************)
\* longest input string
MaxLen == 3

\* an upper-case and a lower-case letter, a digit, the underscore, two kinds
\* of whitespace, and a character outside [a-z0-9_]
SampleChars == {"A", "a", "1", "_", " ", "\t", "!"}

Texts == UNION {[1..n -> SampleChars] : n \in 0..MaxLen}

MasterEmpty ==
    /\ organizations = <<>>
    /\ admins = <<>>
    /\ tokens = {}
    /\ calls = [p \in Procs |-> NoCall]

InitSanitize ==
    /\ MasterEmpty
    /\ tenants = {}
    /\ migration = NoMigration
    /\ text \in Texts
    /\ sanitized = NotSanitized

SanitizeRouter ==
    /\ sanitized.router = <<>>
    /\ sanitized' = [sanitized EXCEPT !.router = <<sanitize_org_name(text)>>]
    /\ UNCHANGED <<organizations, admins, tenants, tokens, calls, text, migration>>

SanitizeScript ==
    /\ sanitized.script = <<>>
    /\ sanitized' = [sanitized EXCEPT !.script = <<sanitize_name(text)>>]
    /\ UNCHANGED <<organizations, admins, tenants, tokens, calls, text, migration>>

SanitizeTwice ==
    /\ sanitized.router # <<>>
    /\ sanitized.twice = <<>>
    /\ sanitized' = [sanitized EXCEPT !.twice = <<sanitize_org_name(sanitized.router[1])>>]
    /\ UNCHANGED <<organizations, admins, tenants, tokens, calls, text, migration>>

NextSanitize ==
    \/ SanitizeRouter
    \/ SanitizeScript
    \/ SanitizeTwice

SpecSanitize == InitSanitize /\ [][NextSanitize]_vars

(***************************************************************************)
(* scripts/migrate_org_name.py: the offline copy of one tenant database    *)
(* into another.  The script is a sequence of store operations; pc is the  *)
(* operation it performs next.  insert_many is applied by the server one   *)
(* document at a time, in order; flushed counts the documents of the       *)
(* current batch that are already in the destination.                      *)
(***************************************************************************)
\* documents per collection of a tenant database
MaxDocs == 2
\* invocations of the script
MaxRuns == 2

\* .limit(5).to_list(length=5)
SampleSize == 5

\* the order in which list_collection_names returns the collections
CollectionOrder == <<"items", "tenant_metadata">>

list_collection_names(tdbs, dbname) ==
    LET Exists(c) == \E r \in tdbs : r.db = dbname /\ r.coll = c
    IN  SelectSeq(CollectionOrder, Exists)

\* count_documents({}) and count_documents({field: value})
count_all(coll) == Len(coll)
count_none(coll, field, value) == 0
count_documents(coll, field, value) == Cardinality(Matching(coll, field, value))

\* new_collection.count_documents({"_id": document["_id"]}) > 0
NeverCopied(new_collection, document) == FALSE
AlreadyCopied(new_collection, document) ==
    count_documents(new_collection, "_id", document._id) > 0

\* if batch:
NoRemaining(batch) == FALSE
Remaining(batch) == batch # <<>>

\* find().limit(5).to_list(length=5)
sample_docs(coll) == SubSeq(coll, 1, IF Len(coll) < SampleSize THEN Len(coll) ELSE SampleSize)

\* f"org_{old_org_name_sanitized}"
org_db_name(name_sanitized) == <<"o", "r", "g", "_">> \o name_sanitized

old_db_name(m) == org_db_name(sanitize_name(m.old_org_name))
new_db_name(m) == org_db_name(sanitize_name(m.new_org_name))

\* the script ends: it returned ("done"), died of the exception of a bulk
\* insert ("raised") or of awaiting the result of client.close()
\* ("TypeError"), or was killed ("killed")
Finish(tdbs, m, end) ==
    [m EXCEPT !.pc = end,
              !.history = Append(@, [end |-> end, inserted |-> m.inserted,
                                     log |-> m.log, warnings |-> m.warnings,
                                     before |-> m.before, after |-> tdbs])]

Says(m, message) == [m EXCEPT !.log = @ \cup {message}]
Warns(m, kind) == [m EXCEPT !.warnings = @ \cup {<<kind, m.old_collections[m.k]>>}]

\* for collection_name in old_collections: the next collection, or the end
ForCollection(tdbs, m, k) ==
    IF k > Len(m.old_collections)
    THEN [m EXCEPT !.pc = "close", !.return_to = "report"]
    ELSE [m EXCEPT !.k = k, !.pc = "count_documents"]

\* await client.close(): close() closes the connections; what it returns is
\* then awaited.  The driver's close() is a plain method that returns None,
\* and awaiting None raises TypeError; only with a driver whose close() is a
\* coroutine function does the script go on, to its report or its return.
Awaitable(m) == m.close_is_coroutine

await_close(tdbs, m) ==
    IF ~Awaitable(m) THEN Finish(tdbs, m, "TypeError")
    ELSE IF m.return_to = "report"
    THEN Finish(tdbs, Says(m, "MIGRATION COMPLETE"), "done")
    ELSE Finish(tdbs, m, "done")

migrate_org_name(tdbs, m) ==
    LET collection_name == m.old_collections[m.k]
        old_collection == tenant_collection(tdbs, old_db_name(m), collection_name)
        new_collection == tenant_collection(tdbs, new_db_name(m), collection_name)
        Same(mm) == [tenants |-> tdbs, m |-> mm]
    IN  CASE m.pc = "start" ->
               IF sanitize_name(m.old_org_name) = sanitize_name(m.new_org_name)
               THEN Same(Finish(tdbs, Says(m, "No migration needed."), "done"))
               ELSE Same([m EXCEPT !.pc = "list_database_names"])
          [] m.pc = "list_database_names" ->
               IF old_db_name(m) \notin list_database_names(tdbs)
               THEN Same([Says(m, "Error: Old database does not exist.")
                             EXCEPT !.pc = "close", !.return_to = "return"])
               ELSE IF new_db_name(m) \in list_database_names(tdbs)
               THEN Same([Says(m, "Warning: New database already exists.")
                             EXCEPT !.pc = "list_collection_names"])
               ELSE Same([m EXCEPT !.pc = "list_collection_names"])
          [] m.pc = "list_collection_names" ->
               Same(ForCollection(tdbs,
                        [m EXCEPT !.old_collections =
                                      list_collection_names(tdbs, old_db_name(m))], 1))
          [] m.pc = "count_documents" ->
               Same([m EXCEPT !.total_documents_old = count_all(old_collection),
                              !.copied_count = 0, !.skipped_count = 0,
                              !.cursor = 1, !.batch = <<>>, !.pc = "cursor"])
          [] m.pc = "cursor" ->
               IF m.cursor > Len(old_collection)
               THEN IF Remaining(m.batch)
                    THEN Same([m EXCEPT !.pc = "insert_many", !.flushed = 0,
                                        !.return_to = "verify_count"])
                    ELSE Same([m EXCEPT !.pc = "verify_count"])
               ELSE LET document == old_collection[m.cursor]
                        batch == Append(m.batch, document)
                    IN  IF AlreadyCopied(new_collection, document)
                        THEN Same([m EXCEPT !.skipped_count = @ + 1, !.cursor = @ + 1])
                        ELSE IF Len(batch) >= m.batch_size
                        THEN Same([m EXCEPT !.batch = batch, !.cursor = @ + 1,
                                            !.pc = "insert_many", !.flushed = 0,
                                            !.return_to = "cursor"])
                        ELSE Same([m EXCEPT !.batch = batch, !.cursor = @ + 1])
          [] m.pc = "insert_many" ->
               IF m.flushed < Len(m.batch)
               THEN LET document == m.batch[m.flushed + 1]
                    IN  IF DuplicateKey(new_collection, document)
                        THEN Same(Finish(tdbs, m, "raised"))
                        ELSE [tenants |-> tenant_put(tdbs, new_db_name(m), collection_name,
                                                     insert_one(new_collection, document)),
                              m |-> [m EXCEPT !.flushed = @ + 1, !.inserted = @ + 1]]
               ELSE Same([m EXCEPT !.copied_count = @ + Len(m.batch), !.batch = <<>>,
                                   !.pc = m.return_to])
          [] m.pc = "verify_count" ->
               LET new_count == count_all(new_collection)
               IN  IF new_count # m.total_documents_old - m.skipped_count
                   THEN Same([Warns(m, "Count mismatch") EXCEPT !.pc = "verify_sample"])
                   ELSE Same([m EXCEPT !.pc = "verify_sample"])
          [] m.pc = "verify_sample" ->
               IF sample_docs(old_collection) # sample_docs(new_collection)
               THEN Same(ForCollection(tdbs, Warns(m, "Sample hash mismatch"), m.k + 1))
               ELSE Same(ForCollection(tdbs, m, m.k + 1))
          [] m.pc = "close" ->
               Same(await_close(tdbs, m))

\* the positions at which the script is running
Running ==
    {"start", "list_database_names", "list_collection_names", "count_documents",
     "cursor", "insert_many", "verify_count", "verify_sample", "close"}

(***************************************************************************)
(* The script on its own: the tenant databases hold application data       *)
(* (collection items) and the metadata record Create wrote; no request is  *)
(* served while the script runs.  Every invocation has the same arguments. *)
(***************************************************************************)
ItemDoc(i, value) == [_id |-> <<"int", i>>, value |-> value]

Collection(dbname, cname, docs) == [db |-> dbname, coll |-> cname, docs |-> docs]

\* org_ace: up to MaxDocs items, with or without the metadata record
SourceStores ==
    {{Collection(org_db_name(ace), "items", [i \in 1..n |-> ItemDoc(i, "a")])} \cup md :
        n \in 0..MaxDocs,
        md \in {{}, {Collection(org_db_name(ace), "tenant_metadata",
                                <<TenantMetadataInDB(str(None), Ace, 1)>>)}}}

\* org_bee: absent, or the tenant database of an organization Bee with an
\* item of its own
DestStores ==
    LET md == Collection(org_db_name(sanitize_name(Bee)), "tenant_metadata",
                         <<TenantMetadataInDB(str(None), Bee, 1)>>)
        items == Collection(org_db_name(sanitize_name(Bee)), "items", <<ItemDoc(1, "b")>>)
    IN  {{}, {md, items}}

MigrateArgs == {<<Ace, Bee>>, <<Ace, ace>>, <<Bee, Ace>>}
BatchSizes == {1, 2}

InitMigrate ==
    /\ MasterEmpty
    /\ text = <<>>
    /\ sanitized = NotSanitized
    /\ tenants \in {src \cup dst : src \in SourceStores, dst \in DestStores}
    /\ migration \in {[NoMigration EXCEPT !.old_org_name = a[1], !.new_org_name = a[2],
                                           !.batch_size = b, !.close_is_coroutine = co] :
                          a \in MigrateArgs, b \in BatchSizes, co \in BOOLEAN}

\* python migrate_org_name.py --old ... --new ... --batch ...
StartMigrate ==
    /\ migration.pc \notin Running
    /\ migration.run < MaxRuns
    /\ migration' = [NoMigration EXCEPT !.pc = "start",
                                        !.old_org_name = migration.old_org_name,
                                        !.new_org_name = migration.new_org_name,
                                        !.batch_size = migration.batch_size,
                                        !.run = migration.run + 1,
                                        !.before = tenants,
                                        !.history = migration.history,
                                        !.close_is_coroutine = migration.close_is_coroutine]
    /\ UNCHANGED <<organizations, admins, tenants, tokens, calls, text, sanitized>>

\* the next store operation of the script
MigrateStep ==
    /\ migration.pc \in Running
    /\ LET r == migrate_org_name(tenants, migration)
       IN  tenants' = r.tenants /\ migration' = r.m
    /\ UNCHANGED <<organizations, admins, tokens, calls, text, sanitized>>

\* the process is killed between two store operations
Kill ==
    /\ migration.pc \in Running
    /\ migration' = Finish(tenants, migration, "killed")
    /\ UNCHANGED <<organizations, admins, tenants, tokens, calls, text, sanitized>>

NextMigrate ==
    \/ StartMigrate
    \/ MigrateStep
    \/ Kill

SpecMigrate == InitMigrate /\ [][NextMigrate]_vars

\* a script that is not killed goes on to its next store operation
SpecMigrateFair == SpecMigrate /\ WF_vars(MigrateStep)

(***************************************************************************)
(* Properties.                                                             *)
(***************************************************************************)
\* the call the one-call-at-a-time specification served last
Last == calls[1]

MasterAndTenants == <<organizations, admins, tenants>>
Unchanged(r) == <<r.db.organizations, r.db.admins, r.db.tenants>> = MasterAndTenants

\* records of a collection that carry a canonical name
WithCanonicalName(orgs, name_lower) ==
    {i \in DOMAIN orgs : orgs[i].organization_name_lower = name_lower}

\* the tenant metadata records of a tenant database
MetadataOf(dbname) == tenant_collection(tenants, dbname, "tenant_metadata")

Succeeded(c) == c.pc = "done" /\ c.status \in {200, 201, 204}

\* C1: after any sequence of Create, Rename and Delete calls, each run to
\* completion, no two organization records have the same canonical name.
CanonicalNameUnique ==
    \A i, j \in DOMAIN organizations :
        i # j => organizations[i].organization_name_lower
                     # organizations[j].organization_name_lower

\* a Create for a canonical name that a record already carries has been refused
CanonicalNameUniqueWitness ==
    /\ Last.op = "create"
    /\ Last.status = 409
    /\ WithCanonicalName(organizations, sanitize_org_name(Last.name)) # {}
    /\ \E i \in DOMAIN organizations : organizations[i].organization_name # Last.name

\* the canonical name a Create or Rename call tries to give an organization
Target(c) == IF c.op = "create" THEN sanitize_org_name(c.name) ELSE sanitize_org_name(c.new_name)

\* C2: when Create and/or Rename calls for the same canonical name are
\* interleaved at store operations, afterwards at most one organization
\* record carries that name and at most one of the calls has succeeded.
ConcurrentSameNameOneWinner ==
    \A p, q \in Procs :
        ( /\ p # q
          /\ calls[p].pc = "done" /\ calls[q].pc = "done"
          /\ calls[p].op \in {"create", "update"}
          /\ calls[q].op \in {"create", "update"}
          /\ q \in calls[p].overlap
          /\ Target(calls[p]) = Target(calls[q]) )
        => /\ Cardinality(WithCanonicalName(organizations, Target(calls[p]))) <= 1
           /\ ~(Succeeded(calls[p]) /\ Succeeded(calls[q]))

\* C3: a Create whose canonical name an organization record already carries
\* returns 409 and writes nothing to the master or tenant databases.
CreateCollisionConflictNoWrite ==
    \A n \in DisplayNames, e \in Emails, pw \in Passwords, t \in Times :
        WithCanonicalName(organizations, sanitize_org_name(n)) # {}
        => \A r \in Run(DB, StartCreate(n, e, pw, t)) :
               r.c.status = 409 /\ Unchanged(r)

\* a colliding Create, under a display name spelled differently, has returned 409
CreateCollisionWitness ==
    /\ Last.op = "create"
    /\ Last.status = 409
    /\ \E i \in DOMAIN organizations :
           /\ organizations[i].organization_name_lower = sanitize_org_name(Last.name)
           /\ organizations[i].admin_email # Last.email

\* C4: after a successful Create, Get with the same display name returns that
\* name, the admin email and the creation timestamp; exactly one administrator
\* record with that email references the new organization's identifier; the
\* tenant database located from the canonical name holds a metadata record
\* with that identifier and display name.
CreateSuccessPostcondition ==
    (Last.op = "create" /\ Last.status = 201) =>
        LET name_lower == sanitize_org_name(Last.name)
            got == RunNoFault(DB, StartGet(Last.name)).c
            org == OrgByCanonicalName(organizations, name_lower)
            md == MetadataOf(tenant_db_name(name_lower))
        IN  /\ got.status = 200
            /\ got.body = <<[organization_name |-> Last.name,
                             admin_email |-> Last.email,
                             created_at |-> isoformat(Last.t)]>>
            /\ Last.body = got.body
            /\ org # <<>>
            /\ Cardinality({i \in DOMAIN admins :
                               /\ admins[i].email = Last.email
                               /\ admins[i].organization_id = str(org[1]._id)}) = 1
            /\ \E k \in DOMAIN md :
                   /\ md[k].organization_id = str(org[1]._id)
                   /\ md[k].organization_name = Last.name

\* a Create has succeeded
CreateSuccessWitness ==
    /\ Last.op = "create"
    /\ Last.status = 201
    /\ Len(organizations) = 1 /\ Len(admins) = 1 /\ tenants # {}

\* C5: a Create that reports failure after its compensating deletes ran
\* leaves neither the organization record nor the administrator record it
\* wrote.
CreateAllOrNothing ==
    (Last.op = "create" /\ Last.status = 500 /\ Last.detail = "Failed to create organization")
    => /\ \A i \in DOMAIN organizations :
              organizations[i] #
                  OrganizationInDB(Last.name, sanitize_org_name(Last.name), Last.email, Last.t)
       /\ \A i \in DOMAIN admins :
              admins[i] #
                  AdminInDB(Last.email, hash_password(Last.password), Last.org_id, Last.t)

\* C6: a Delete by an administrator whose email differs from the recorded one
\* returns 403 and changes nothing in the master or tenant databases.
DeleteByNonOwnerForbidden ==
    \A n \in DisplayNames, a \in Emails :
        LET org == OrgByCanonicalName(organizations, sanitize_org_name(n))
        IN  (org # <<>> /\ org[1].admin_email # a)
            => \A r \in Run(DB, StartDelete(n, a)) :
                   r.c.status = 403 /\ Unchanged(r)

\* a Delete by another administrator has returned 403 and the organization is there
DeleteByNonOwnerWitness ==
    /\ Last.op = "delete"
    /\ Last.status = 403
    /\ \E i \in DOMAIN organizations :
           /\ organizations[i].organization_name_lower = sanitize_org_name(Last.name)
           /\ organizations[i].admin_email # Last.admin

\* C7: after a successful Delete by the owner there is no organization record
\* with that canonical name, no administrator record referencing the
\* organization's identifier, and the tenant database of that canonical name
\* does not exist.
DeleteByOwnerRemovesAll ==
    (Last.op = "delete" /\ Last.status = 204) =>
        LET name_lower == sanitize_org_name(Last.name)
        IN  /\ WithCanonicalName(organizations, name_lower) = {}
            /\ \A i \in DOMAIN admins : admins[i].organization_id # str(Last.org[1]._id)
            /\ tenant_db_name(name_lower) \notin list_database_names(tenants)

\* C8: after a successful Delete by the owner no existing tenant database
\* holds a metadata record referencing the deleted organization's identifier.
DeleteLeavesNoOrphanTenant ==
    (Last.op = "delete" /\ Last.status = 204) =>
        \A dbname \in list_database_names(tenants) :
            \A k \in DOMAIN MetadataOf(dbname) :
                MetadataOf(dbname)[k].organization_id # str(Last.org[1]._id)

\* C9: every tenant database belongs to one organization: its metadata
\* records reference one organization identifier, only one Create has put its
\* metadata record there, and at most one organization record is located in it.
TenantOwnedByOneOrganization ==
    \A dbname \in list_database_names(tenants) :
        LET md == MetadataOf(dbname)
        IN  /\ \A j, k \in DOMAIN md : md[j].organization_id = md[k].organization_id
            /\ Len(md) <= 1
            /\ Cardinality({i \in DOMAIN organizations :
                   tenant_db_name(organizations[i].organization_name_lower) = dbname}) <= 1

\* a Create for a canonical name whose tenant database a renamed organization
\* left behind has run into that database's metadata record and failed
TenantOwnedWitness ==
    /\ Last.op = "create"
    /\ Last.detail = "Failed to create organization"
    /\ Last.e = <<"DuplicateKeyError", "tenant_metadata">>
    /\ \E k \in DOMAIN MetadataOf(tenant_db_name(sanitize_org_name(Last.name))) :
           MetadataOf(tenant_db_name(sanitize_org_name(Last.name)))[k].created_at # Last.t
              \/ MetadataOf(tenant_db_name(sanitize_org_name(Last.name)))[k].organization_name
                     # Last.name

\* C10: a successful Rename rewrites the display name and canonical name of
\* the renamed organization record and nothing else: the record's other
\* fields, the other organization records, the administrator records and the
\* tenant databases are as before.
RenameChangesOnlyNames ==
    \A n \in DisplayNames, nn \in DisplayNames, a \in Emails :
        \A r \in Run(DB, StartUpdate(n, nn, a)) :
            r.c.status = 200 =>
                LET renamed == SetMin(WithCanonicalName(organizations, sanitize_org_name(n)))
                IN  /\ r.db.admins = admins
                    /\ r.db.tenants = tenants
                    /\ Len(r.db.organizations) = Len(organizations)
                    /\ \A i \in DOMAIN organizations :
                           r.db.organizations[i] =
                               IF i = renamed
                               THEN [organizations[i] EXCEPT
                                        !.organization_name = nn,
                                        !.organization_name_lower = sanitize_org_name(nn)]
                               ELSE organizations[i]

\* a Rename has succeeded; the tenant database still has the old canonical
\* name and none exists for the new one
RenameWitness ==
    /\ Last.op = "update"
    /\ Last.status = 200
    /\ WithCanonicalName(organizations, sanitize_org_name(Last.new_name)) # {}
    /\ tenant_db_name(sanitize_org_name(Last.name)) \in list_database_names(tenants)
    /\ tenant_db_name(sanitize_org_name(Last.new_name)) \notin list_database_names(tenants)

\* C11: a Rename is refused with 409 only when an organization record other
\* than the one being renamed carries the new canonical name; in particular a
\* Rename to a display name with the organization's own canonical name (a
\* change of letter case) is not refused with 409.
RenameConflictOnlyWithOther ==
    (Last.op = "update" /\ Last.status = 409) =>
        \E i \in DOMAIN organizations :
            /\ organizations[i].organization_name_lower = sanitize_org_name(Last.new_name)
            /\ i \notin WithCanonicalName(organizations, sanitize_org_name(Last.name))

\* the organization record an administrator record references
ReferencedBy(adm) == {j \in DOMAIN organizations : adm.organization_id = str(organizations[j]._id)}
\* the administrator records that reference an organization record
ReferencesTo(org) == {i \in DOMAIN admins : admins[i].organization_id = str(org._id)}

\* C12: when no call is in flight, an administrator record exists exactly
\* when the organization record it references exists.
AdminLifetimeTiedToOrganization ==
    InFlight = {} =>
        /\ \A i \in DOMAIN admins : ReferencedBy(admins[i]) # {}
        /\ \A j \in DOMAIN organizations : ReferencesTo(organizations[j]) # {}

\* C13: every organization record's canonical name is the sanitized form of
\* its display name.
CanonicalNameIsSanitizedDisplayName ==
    \A i \in DOMAIN organizations :
        organizations[i].organization_name_lower
            = sanitize_org_name(organizations[i].organization_name)

\* a Rename has given a record a display name that is not its own canonical
\* name, after a Create under another display name
CanonicalNameIsSanitizedWitness ==
    /\ Last.op = "update"
    /\ Last.status = 200
    /\ \E i \in DOMAIN organizations :
           /\ organizations[i].organization_name = Last.new_name
           /\ organizations[i].organization_name # Last.name
           /\ organizations[i].organization_name_lower # organizations[i].organization_name

\* C17: no organization record has an empty canonical name and no tenant
\* database has an empty suffix: a display name whose canonical name is empty
\* is refused before any write.
NoEmptyCanonicalName ==
    /\ \A i \in DOMAIN organizations : organizations[i].organization_name_lower # <<>>
    /\ tenant_db_name(<<>>) \notin list_database_names(tenants)

\* a string with its letters in lower case, its leading and trailing
\* whitespace removed and every other run of whitespace written as one space
RECURSIVE CollapseWhite(_)
CollapseWhite(s) ==
    IF s = <<>> THEN <<>>
    ELSE IF Head(s) \in WhiteChars
         THEN <<" ">> \o CollapseWhite(SkipWhite(s))
         ELSE <<Head(s)>> \o CollapseWhite(Tail(s))

\* two display names differ only by letter case or whitespace style
SameUpToCaseAndWhitespace(n1, n2) ==
    strip(CollapseWhite(lower(n1))) = strip(CollapseWhite(lower(n2)))

\* C14: display names that differ only by letter case or by whitespace style
\* (number and kind of whitespace characters, leading and trailing whitespace
\* included) have the same canonical name.
SanitizeIgnoresCaseAndWhitespace ==
    sanitized.router # <<>> =>
        \A n2 \in Texts :
            SameUpToCaseAndWhitespace(text, n2) => sanitized.router[1] = sanitize_org_name(n2)

\* C15: sanitizing a canonical name returns it unchanged, and a canonical
\* name has only lower-case ASCII letters, digits and underscores.
SanitizeIdempotent ==
    /\ sanitized.router # <<>> =>
           \A k \in DOMAIN sanitized.router[1] :
               sanitized.router[1][k] \in LowerChars \cup DigitChars \cup {"_"}
    /\ sanitized.twice # <<>> => sanitized.twice = sanitized.router

\* the sanitizer has been applied to its own output for an input with an
\* upper-case letter, whitespace and a character it deletes
SanitizeIdempotentWitness ==
    /\ sanitized.twice # <<>>
    /\ \E i, j, k \in DOMAIN text :
           text[i] \in UpperChars /\ text[j] \in WhiteChars /\ text[k] = "!"
    /\ sanitized.router[1] # <<>>

\* C16: the router's sanitizer and the migration script's sanitizer return
\* the same canonical name for the same input.
SanitizersAgree ==
    (sanitized.router # <<>> /\ sanitized.script # <<>>) => sanitized.router = sanitized.script

\* both sanitizers have been applied to an input with leading whitespace,
\* an upper-case letter and a character they delete
SanitizersAgreeWitness ==
    /\ sanitized.router # <<>>
    /\ sanitized.script # <<>>
    /\ Len(text) = MaxLen
    /\ text[1] \in WhiteChars
    /\ \E i, k \in DOMAIN text : text[i] \in UpperChars /\ text[k] = "!"

\* the collections of one tenant database
Namespace(tdbs, dbname) == {r \in tdbs : r.db = dbname}

\* the documents of a collection, as a set
Docs(coll) == {coll[k] : k \in DOMAIN coll}

\* a run went through all its store operations: it returned, or it died of
\* awaiting the result of client.close(), its last statement but the report
Completed(h) == h.end \in {"done", "TypeError"}

\* a database is absent or has no document
EmptyOrAbsent(tdbs, dbname) == \A r \in Namespace(tdbs, dbname) : r.docs = <<>>

\* C18: of two runs of the script with the same arguments, the second one
\* after the first has completed, the second completes too, inserts no
\* document and leaves the destination as the first left it; the source
\* database is after each run what it was before the first.
MigrateTwiceConverges ==
    \A i \in 1..(Len(migration.history) - 1) :
        LET first == migration.history[i]
            second == migration.history[i + 1]
        IN  (Completed(first) /\ second.end # "killed") =>
                /\ Completed(second)
                /\ second.inserted = 0
                /\ Namespace(second.after, new_db_name(migration))
                       = Namespace(first.after, new_db_name(migration))
                /\ Namespace(first.after, old_db_name(migration))
                       = Namespace(first.before, old_db_name(migration))
                /\ Namespace(second.after, old_db_name(migration))
                       = Namespace(first.before, old_db_name(migration))

\* the script has completed twice, and its first run copied documents of
\* more than one batch
MigrateTwiceWitness ==
    /\ Len(migration.history) = 2
    /\ Completed(migration.history[1])
    /\ migration.history[1].inserted > migration.batch_size
    /\ Completed(migration.history[2])
    /\ "No migration needed." \notin migration.history[2].log

\* C19: after a run that completed on an existing source database, every
\* document of every source collection has a document with its _id in the
\* destination collection of the same name; if the destination was empty or
\* absent before the run, the destination holds exactly the source's
\* documents.
MigrateCopiesEveryRecord ==
    \A i \in DOMAIN migration.history :
        LET h == migration.history[i]
            old_db == old_db_name(migration)
            new_db == new_db_name(migration)
        IN  (Completed(h) /\ old_db \in list_database_names(h.before)) =>
                /\ \A r \in Namespace(h.before, old_db) : \A k \in DOMAIN r.docs :
                       Matching(tenant_collection(h.after, new_db, r.coll),
                                "_id", r.docs[k]._id) # {}
                /\ EmptyOrAbsent(h.before, new_db) =>
                       /\ \A r \in Namespace(h.before, old_db) :
                              Docs(r.docs) \subseteq Docs(tenant_collection(h.after, new_db, r.coll))
                       /\ \A d \in Namespace(h.after, new_db) :
                              Docs(d.docs) \subseteq Docs(tenant_collection(h.before, old_db, d.coll))

\* a run into an absent destination has completed after copying the items,
\* the last of them in a batch that was not full, and the metadata record
MigrateCopiesWitness ==
    /\ migration.pc \notin Running
    /\ migration.batch_size = 2
    /\ Len(migration.history) = 1
    /\ Completed(migration.history[1])
    /\ new_db_name(migration) \notin list_database_names(migration.history[1].before)
    /\ migration.history[1].inserted = 2
    /\ Cardinality(Namespace(tenants, new_db_name(migration))) = 2

\* after a killed run, a run that completes leaves every source document
\* exactly once in the destination
ResumedRunCopiesOnce ==
    \A i \in 2..Len(migration.history) :
        LET h == migration.history[i]
        IN  (Completed(h) /\ migration.history[i - 1].end = "killed"
                /\ old_db_name(migration) \in list_database_names(h.before)) =>
                \A r \in Namespace(h.after, old_db_name(migration)) : \A k \in DOMAIN r.docs :
                    Cardinality(Matching(tenant_collection(h.after, new_db_name(migration), r.coll),
                                         "_id", r.docs[k]._id)) = 1

\* C20: the script can be killed at any store operation, also between the
\* documents of a bulk insert, and run again: no run dies of a duplicate
\* _id, a run that is not killed ends, and a run that completes after a
\* killed one leaves every source document exactly once in the destination.
MigrateResumable ==
    /\ [](migration.pc # "raised" /\ ResumedRunCopiesOnce)
    /\ (migration.pc \in Running ~> migration.pc \in {"done", "TypeError", "killed"})

\* a run into an absent destination was killed when the server had applied
\* the first document of its first bulk insert of two, and the next run has
\* completed and inserted the rest
MigrateResumableWitness ==
    /\ Len(migration.history) = 2
    /\ migration.batch_size = 2
    /\ migration.history[1].end = "killed"
    /\ new_db_name(migration) \notin list_database_names(migration.history[1].before)
    /\ Len(tenant_collection(migration.history[1].before, old_db_name(migration), "items")) >= 2
    /\ migration.history[1].inserted = 1
    /\ Completed(migration.history[2])
    /\ migration.history[2].inserted > 0

\* C21: when the old database does not exist the script prints the error and
\* returns; it does not raise, and it leaves the tenant databases as they
\* were, the destination database not created.
MigrateMissingSourceReturns ==
    \A i \in DOMAIN migration.history :
        LET h == migration.history[i]
        IN  ( /\ h.end # "killed"
              /\ sanitize_name(migration.old_org_name) # sanitize_name(migration.new_org_name)
              /\ old_db_name(migration) \notin list_database_names(h.before) ) =>
                /\ "Error: Old database does not exist." \in h.log
                /\ h.after = h.before
                /\ h.end = "done"

\* the namespace identifier of a canonical name: as the code builds it, and
\* as the specification words it
LocateOrg(canonical_name) == <<"o", "r", "g", "_">> \o canonical_name
LocateTenant(canonical_name) == <<"t", "e", "n", "a", "n", "t", "_">> \o canonical_name

\* Create, Delete and the migration script use the mapping Locate, a prefix
\* followed by the canonical name: after a
\* successful Create the metadata record is in the database Locate names,
\* a Delete by the owner drops exactly that database, the script run for the
\* same name reads that database, and no other canonical name of the model
\* has that database.
UsesLocator(prefix) ==
    (Last.op = "create" /\ Last.status = 201) =>
        LET Locate(name) == prefix \o name
            canonical_name == sanitize_org_name(Last.name)
            deleted == RunNoFault(DB, StartDelete(Last.name, Last.email))
            m == [NoMigration EXCEPT !.old_org_name = Last.name]
        IN  /\ tenant_db_name(canonical_name) = Locate(canonical_name)
            /\ MetadataOf(Locate(canonical_name)) # <<>>
            /\ deleted.c.status = 204
            /\ Namespace(tenants, Locate(canonical_name)) # {}
            /\ deleted.db.tenants = tenants \ Namespace(tenants, Locate(canonical_name))
            /\ old_db_name(m) = Locate(canonical_name)
            /\ \A n \in DisplayNames :
                   Locate(sanitize_org_name(n)) = Locate(canonical_name)
                       => sanitize_org_name(n) = canonical_name

\* C22 (as amended): the namespace of a canonical name is "org_" followed by
\* the canonical name, an injective mapping, and Create, Delete and the
\* migration script all use it.
LocatorIsOrgPrefix == UsesLocator(LocateOrg(<<>>))

\* C22 (as stated): the same with the namespace "tenant_" followed by the
\* canonical name.
LocatorIsTenantPrefix == UsesLocator(LocateTenant(<<>>))

\* a Create has written the metadata record of an organization whose display
\* name is not its canonical name into the database org_<canonical name>
LocatorWitness ==
    /\ Last.op = "create"
    /\ Last.status = 201
    /\ Last.name # sanitize_org_name(Last.name)
    /\ MetadataOf(LocateOrg(sanitize_org_name(Last.name))) # <<>>
    /\ MetadataOf(LocateOrg(sanitize_org_name(Last.name)))[1].organization_name = Last.name

\* C23: a Delete attempts the drop of the tenant database only after the
\* organization record and its administrator record are gone: when a Delete
\* that no other call overlaps is at its drop_database, or has returned 204
\* with no call begun since, no organization record has the canonical name
\* and no administrator record references the organization.
DeleteDropsNamespaceLast ==
    \A p \in Procs :
        LET c == calls[p]
        IN  ( /\ c.op = "delete"
              /\ c.overlap = {}
              /\ c.pc = "drop_database" \/ (c.pc = "done" /\ c.status = 204)
              /\ \A q \in Procs \ {p} : calls[q].op = "none" ) =>
                /\ WithCanonicalName(organizations, sanitize_org_name(c.name)) = {}
                /\ ReferencesTo(c.org[1]) = {}

\* C24: after a collection is copied the script warns of a count mismatch
\* exactly when the destination collection and the source collection differ
\* in their number of documents; in particular not when the destination
\* holds exactly the source's documents, whatever was skipped.
CountWarningOnlyOnMismatch ==
    \A i \in DOMAIN migration.history :
        LET h == migration.history[i]
        IN  Completed(h) =>
                \A r \in Namespace(h.after, old_db_name(migration)) :
                    (<<"Count mismatch", r.coll>> \in h.warnings)
                        <=> (Len(tenant_collection(h.after, new_db_name(migration), r.coll))
                                 # Len(r.docs))

\* every document of a collection is still in it afterwards
Kept(before, after) == \A i \in DOMAIN before : \E j \in DOMAIN after : after[j] = before[i]

\* C25: a step in which a Create fails and rolls back removes no organization
\* record, no administrator record and no tenant collection that was there
\* before the Create.
RollbackLeavesOtherRecords ==
    [][ (calls'[1].op = "create" /\ calls'[1].detail = "Failed to create organization")
            => /\ Kept(organizations, organizations')
               /\ Kept(admins, admins')
               /\ tenants \subseteq tenants' ]_vars

\* C26: when a Rename returns 200, an organization record with the new
\* display name and the new canonical name exists at that moment, whatever
\* other calls were interleaved with it.
RenameSuccessMeansRenamed ==
    [][ \A p \in Procs :
            (calls[p].pc # "done" /\ calls'[p].pc = "done"
                /\ calls'[p].op = "update" /\ calls'[p].status = 200)
            => \E i \in DOMAIN organizations' :
                   /\ organizations'[i].organization_name = calls'[p].new_name
                   /\ organizations'[i].organization_name_lower
                          = sanitize_org_name(calls'[p].new_name) ]_vars

====
